---- MODULE Spec2Model ----
(***************************************************************************)
(* Verification model of UnityGodotConverter                               *)
(* (src/unity_godot_material_converter.py).                                *)
(*                                                                         *)
(* Strings whose characters matter to the code (cache keys, GUID markers,  *)
(* names compared case-insensitively, shader keyword strings) are          *)
(* sequences of tokens; directory trees are sets of file records and a     *)
(* top-down walk of a tree may meet its files in any order os.walk allows. *)
(***************************************************************************)
EXTENDS Integers, Sequences, FiniteSets, TLC

VARIABLES
    unity_tree,            \* unity project root -> set of .meta sidecars on disk
    unity_texture_cache,   \* self.unity_texture_cache : cache key -> asset path or None
    walks,                 \* number of os.walk scans find_meta_file_by_guid started
    calls,                 \* number of find_meta_file_by_guid calls made
    firstResult,           \* (root, guid) -> result of the first lookup of that pair
    lastCall,              \* the most recent find_meta_file_by_guid call
    godot_tree,            \* the files under the Godot project root
    godot_resource_cache,  \* self.godot_resource_cache : cache key -> res:// path or None
    locates,               \* number of find_godot_resource calls made
    lastLocate,            \* the most recent find_godot_resource call
    material,              \* the material record handed to generate_godot_material
    tres_content,          \* the lines written to the .tres file
    log,                   \* what the converter printed
    generated,             \* generate_godot_material has returned
    mesh_tree,             \* the files under the Godot assets directory
    scene_dirs,            \* directories generate_godot_scene created
    scene_files,           \* the .tscn files written: path -> content
    scenes,                \* number of direct generate_godot_scene calls made
    lastScene,             \* the most recent generate_godot_scene call
    pc,                    \* where convert_directory is
    outside,               \* output_dir does not lie under godot_project_root
    mat_files,             \* list(input_path.glob('**/*.mat'))
    fbx_files,             \* list(input_path.glob('**/*.fbx'))
    mi,                    \* index of the next material file
    fi,                    \* index of the next mesh file
    material_paths,        \* the dict of line 283, in insertion order
    tres_files,            \* the .tres files written: index of the material file
    raised,                \* files whose conversion raised an exception
    translated             \* (name, resource id) of each material recorded, in order

guidVars == <<unity_tree, unity_texture_cache, walks, calls, firstResult, lastCall>>
locateVars == <<godot_tree, godot_resource_cache, locates, lastLocate>>
matVars == <<material, tres_content, log, generated>>
sceneVars == <<mesh_tree, scene_dirs, scene_files, scenes, lastScene>>
batchVars == <<pc, outside, mat_files, fbx_files, mi, fi, material_paths, tres_files,
               raised, translated>>
vars == <<guidVars, locateVars, matVars, sceneVars, batchVars>>

\* What each component leaves alone.
notGuid == <<locateVars, matVars, sceneVars, batchVars>>
notLocate == <<guidVars, matVars, sceneVars, batchVars>>
notMat == <<sceneVars, batchVars>>
notScene == <<guidVars, locateVars, matVars, batchVars>>

\* Paths are records [dir, name]: the directory and the file name, a
\* sequence of tokens.  Python's None has the same shape; it and the empty
\* string are the two falsy paths.
None == [dir |-> "None", name |-> <<>>]
EmptyPath == [dir |-> "", name |-> <<>>]
Falsy(p) == p.name = <<>>

(***************************************************************************)
(* String helpers                                                          *)
(***************************************************************************)

\* Python's `needle in hay` on strings: needle is a contiguous run of hay.
Contains(needle, hay) ==
    \E i \in 0..(Len(hay) - Len(needle)) :
        \A j \in 1..Len(needle) : hay[i + j] = needle[j]

\* f"{project_root}:{guid}"
CacheKey(project_root, s) == project_root \o <<":">> \o s

(***************************************************************************)
(* Directory walks                                                         *)
(***************************************************************************)

TopDir == ""

\* os.walk is top-down: the files of the top directory are met before the
\* files of any sub-directory; otherwise the listing order is the file
\* system's.  Of a set of files that satisfy a test, any one with no
\* satisfying file in a directory above it can be the first met.
FirstInWalk(matches) ==
    {m \in matches : m.dir = TopDir \/ ~\E n \in matches : n.dir = TopDir}

(***************************************************************************)
(* GUID resolver: find_meta_file_by_guid                                   *)
(***************************************************************************)

\* Project roots a converter instance is asked about.  The second root
\* contains the separator of the cache key.
Roots == {<<"u">>, <<"u", ":", "a">>}

\* GUIDs are strings of hex digits; a well-formed one has GuidLen of them.
HexDigits == {"a", "b"}
GuidLen == 2
WellFormed(guid) == Len(guid) = GuidLen /\ \A i \in 1..Len(guid) : guid[i] \in HexDigits

\* The well-formed GUID whose first digit is d.
Guid(d) == [i \in 1..GuidLen |-> IF i = 1 THEN d ELSE "b"]

\* GUIDs that sidecars on disk declare.
DeclaredGuids == {Guid("a"), Guid("b")}

\* GUIDs a caller may pass: nothing validates them.
LookupGuids == {<<>>, <<"b">>, <<"a", ":", "b">>, Guid("a")}

Dirs == {TopDir, "Textures"}

\* A sidecar <asset>.meta: the asset's place, the GUID it declares, whether
\* the asset itself is on disk, and whether the sidecar decodes as UTF-8.
Sidecars ==
    {s \in [dir : Dirs, name : {"Wood.psd"}, guid : DeclaredGuids,
            exists : BOOLEAN, decodable : BOOLEAN] :
        /\ s.exists \/ s.decodable
        /\ s.dir = TopDir => s.guid = Guid("a")}

\* The tree of the second root does not change during a run.
FixedTree ==
    {[dir |-> "Textures", name |-> <<"W", ".", "psd">>, guid |-> Guid("b"),
      exists |-> TRUE, decodable |-> TRUE]}

\* The text of a sidecar.
MetaContent(s) == <<"fileFormatVersion: 2\n", "guid: ">> \o s.guid \o <<"\n">>

\* meta_path[:-5]
AssetOf(s) == [dir |-> s.dir, name |-> s.name]

\* f'guid: {guid}' in content
GuidMarkerIn(guid, s) == Contains(<<"guid: ">> \o guid, MetaContent(s))

\* The sidecars at which the scan of lines 28-41 can return.
WalkMatches(tree, guid) ==
    {s \in tree : s.decodable /\ GuidMarkerIn(guid, s) /\ s.exists}

\* find_meta_file_by_guid without line 43: a miss is returned but not cached.
FindMetaOutcomes_MissNotCached(cache, tree, project_root, guid) ==
    LET cache_key == CacheKey(project_root, guid)
        found == WalkMatches(tree, guid)
    IN  IF cache_key \in DOMAIN cache
        THEN {[ret |-> cache[cache_key], cache |-> cache, walked |-> FALSE]}
        ELSE IF found = {}
        THEN {[ret |-> None, cache |-> cache, walked |-> TRUE]}
        ELSE {[ret |-> AssetOf(s), cache |-> cache @@ (cache_key :> AssetOf(s)),
               walked |-> TRUE] : s \in FirstInWalk(found)}

\* One call of find_meta_file_by_guid: the value returned, the cache after
\* the call, and whether the tree was walked.
FindMetaOutcomes(cache, tree, project_root, guid) ==
    LET cache_key == CacheKey(project_root, guid)
        found == WalkMatches(tree, guid)
    IN  IF cache_key \in DOMAIN cache
        THEN {[ret |-> cache[cache_key], cache |-> cache, walked |-> FALSE]}
        ELSE IF found = {}
        THEN {[ret |-> None, cache |-> cache @@ (cache_key :> None), walked |-> TRUE]}
        ELSE {[ret |-> AssetOf(s), cache |-> cache @@ (cache_key :> AssetOf(s)),
               walked |-> TRUE] : s \in FirstInWalk(found)}

\* What a walk of the tree as it is now can return for the GUID.
FreshResults(tree, guid) ==
    IF WalkMatches(tree, guid) = {} THEN {None}
    ELSE {AssetOf(s) : s \in FirstInWalk(WalkMatches(tree, guid))}

MaxCalls == 3

NoCall == [root |-> <<>>, guid |-> <<>>, ret |-> None, walked |-> FALSE,
           repeat |-> FALSE, fresh |-> {}]

InitGuid ==
    /\ unity_tree = [r \in Roots |-> IF r = <<"u">> THEN {} ELSE FixedTree]
    /\ unity_texture_cache = <<>>
    /\ walks = 0
    /\ calls = 0
    /\ firstResult = <<>>
    /\ lastCall = NoCall

\* converter.find_meta_file_by_guid(project_root, guid)
FindMetaFileByGuid(project_root, guid) ==
    /\ calls < MaxCalls
    /\ \E o \in FindMetaOutcomes(unity_texture_cache, unity_tree[project_root],
                                 project_root, guid) :
          /\ unity_texture_cache' = o.cache
          /\ walks' = IF o.walked THEN walks + 1 ELSE walks
          /\ lastCall' = [root |-> project_root, guid |-> guid, ret |-> o.ret,
                          walked |-> o.walked,
                          repeat |-> <<project_root, guid>> \in DOMAIN firstResult,
                          fresh |-> FreshResults(unity_tree[project_root], guid)]
          /\ firstResult' = IF <<project_root, guid>> \in DOMAIN firstResult
                            THEN firstResult
                            ELSE firstResult @@ (<<project_root, guid>> :> o.ret)
    /\ calls' = calls + 1
    /\ UNCHANGED <<unity_tree, notGuid>>

\* The project on disk changes between two calls: a sidecar appears.
SidecarAppears(project_root, s) ==
    /\ project_root = <<"u">>
    /\ ~\E t \in unity_tree[project_root] : AssetOf(t) = AssetOf(s)
    /\ unity_tree' = [unity_tree EXCEPT ![project_root] = @ \cup {s}]
    /\ UNCHANGED <<unity_texture_cache, walks, calls, firstResult, lastCall, notGuid>>

\* ... or a sidecar is deleted.
SidecarVanishes(project_root, s) ==
    /\ project_root = <<"u">>
    /\ s \in unity_tree[project_root]
    /\ unity_tree' = [unity_tree EXCEPT ![project_root] = @ \ {s}]
    /\ UNCHANGED <<unity_texture_cache, walks, calls, firstResult, lastCall, notGuid>>

NextGuid ==
    \/ \E r \in Roots, g \in LookupGuids : FindMetaFileByGuid(r, g)
    \/ \E r \in Roots, s \in Sidecars : SidecarAppears(r, s)
    \/ \E r \in Roots, s \in Sidecars : SidecarVanishes(r, s)

(***************************************************************************)
(* Resource locator: find_godot_resource                                   *)
(***************************************************************************)

\* str.lower(), token by token.
LowerTok(t) ==
    CASE t = "W" -> "w"
      [] t = "PNG" -> "png"
      [] t = "PSD" -> "psd"
      [] t = "TGA" -> "tga"
      [] t = "C" -> "c"
      [] t = "R" -> "r"
      [] t = "B" -> "b"
      [] OTHER -> t

LowerStr(name) == [i \in 1..Len(name) |-> LowerTok(name[i])]

\* os.path.splitext on a file name: the extension starts at the last dot,
\* unless only dots precede that dot.
LastDot(name) ==
    IF \E i \in 1..Len(name) : name[i] = "."
    THEN CHOOSE i \in 1..Len(name) :
            name[i] = "." /\ \A k \in (i + 1)..Len(name) : name[k] # "."
    ELSE 0

HasExt(name) ==
    LastDot(name) > 0 /\ \E k \in 1..(LastDot(name) - 1) : name[k] # "."

SplitextBase(name) ==
    IF HasExt(name) THEN SubSeq(name, 1, LastDot(name) - 1) ELSE name

SplitextExt(name) ==
    IF HasExt(name) THEN SubSeq(name, LastDot(name), Len(name)) ELSE <<>>

\* str.endswith
EndsWith(str, suffix) ==
    /\ Len(str) >= Len(suffix)
    /\ SubSeq(str, Len(str) - Len(suffix) + 1, Len(str)) = suffix

Png == <<".", "png">>
Psd == <<".", "psd">>

\* The same choice with the .psd test made on the path as written.
Extensions_CaseSensitive(name) ==
    IF EndsWith(name, Psd) THEN <<Png>> ELSE <<SplitextExt(name), Png>>

\* ['.png'] if unity_path.lower().endswith('.psd')
\*          else [os.path.splitext(unity_path)[1], '.png']
Extensions(name) ==
    IF EndsWith(LowerStr(name), Psd) THEN <<Png>> ELSE <<SplitextExt(name), Png>>

\* file.lower() == (base_name.lower() + ext.lower())
NameMatches(file, base_name, ext) ==
    LowerStr(file) = LowerStr(base_name) \o LowerStr(ext)

\* The files of the tree the walk for one candidate extension can stop at.
ExtMatches(tree, base_name, ext) ==
    {f \in tree : NameMatches(f.name, base_name, ext)}

\* "res://" + os.path.relpath(full_path, godot_project_root).replace('\\', '/')
ResDir(dir) ==
    CASE dir = TopDir -> "res://"
      [] dir = "Textures" -> "res://Textures/"

ResPath(f) == [dir |-> ResDir(f.dir), name |-> f.name]

\* The full path as the string the cache key is built from.
PathStr(p) == IF Falsy(p) THEN <<>> ELSE <<p.dir, "/">> \o p.name

\* The values the search of lines 55-69 can return.
LocateResults(tree, name) ==
    LET base_name == SplitextBase(name)
        extensions == Extensions(name)
        hits(k) == ExtMatches(tree, base_name, extensions[k])
    IN  IF \A k \in 1..Len(extensions) : hits(k) = {}
        THEN {None}
        ELSE LET first == CHOOSE k \in 1..Len(extensions) :
                              hits(k) # {} /\ \A m \in 1..(k - 1) : hits(m) = {}
             IN  {ResPath(f) : f \in FirstInWalk(hits(first))}

\* One call of find_godot_resource: the value returned and the cache after.
FindGodotOutcomes(cache, tree, godot_project_root, unity_path) ==
    LET cache_key == CacheKey(godot_project_root, PathStr(unity_path))
    IN  IF Falsy(unity_path)
        THEN {[ret |-> None, cache |-> cache]}
        ELSE IF cache_key \in DOMAIN cache
        THEN {[ret |-> cache[cache_key], cache |-> cache]}
        ELSE {[ret |-> r, cache |-> cache @@ (cache_key :> r)] :
                  r \in LocateResults(tree, unity_path.name)}

GodotRoot == <<"g">>

\* Files a Godot project can hold.
GodotNames ==
    {<<"W", ".", "png">>, <<"w", ".", "PNG">>, <<"W", ".", "tga">>,
     <<"w", ".", "psd">>, <<"w">>}
GodotFiles == [dir : Dirs, name : GodotNames]

\* Unity asset paths a caller may pass; the last one is the empty string.
UnityNames ==
    {<<"W", ".", "psd">>, <<"w", ".", "PSD">>, <<"w", ".", "TGA">>,
     <<"W", ".", "png">>, <<"W">>}
UnityPaths ==
    [dir : {"Textures"}, name : UnityNames] \cup {EmptyPath}

MaxGodotFiles == 3
MaxLocates == 2

NoLocate == [path |-> EmptyPath, ret |-> None]

InitLocate ==
    /\ godot_tree \in {t \in SUBSET GodotFiles : Cardinality(t) <= MaxGodotFiles}
    /\ godot_resource_cache = <<>>
    /\ locates = 0
    /\ lastLocate = NoLocate

\* converter.find_godot_resource(godot_project_root, unity_path)
FindGodotResource(unity_path) ==
    /\ locates < MaxLocates
    /\ \E o \in FindGodotOutcomes(godot_resource_cache, godot_tree, GodotRoot, unity_path) :
          /\ godot_resource_cache' = o.cache
          /\ lastLocate' = [path |-> unity_path, ret |-> o.ret]
    /\ locates' = locates + 1
    /\ UNCHANGED <<godot_tree, notLocate>>

NextLocate == \E p \in UnityPaths : FindGodotResource(p)

(***************************************************************************)
(* Material translator: generate_godot_material                            *)
(***************************************************************************)

\* self.property_mappings, in insertion order.
property_mappings ==
    << <<"_MainTex", "albedo_texture">>,
       <<"_Color", "albedo_color">>,
       <<"_Metallic", "metallic">>,
       <<"_Glossiness", "roughness">>,
       <<"_BumpMap", "normal_texture">>,
       <<"_EmissionColor", "emission">>,
       <<"_EmissionMap", "emission_texture">>,
       <<"_OcclusionMap", "ao_texture">> >>

GodotKeys == {property_mappings[k][2] : k \in 1..Len(property_mappings)}

\* A line "key = value" of the [resource] section.  Numbers are counted in
\* quarters (0.5 is 2, 1.0 is 4), values a binary float holds exactly, so
\* that 1.0 - value is exact too; integer literals are counted in units.
NoColor == <<0, 0, 0, 0>>
IntLine(key, n) ==
    [key |-> key, kind |-> "int", num |-> n, path |-> None, rgba |-> NoColor]
FloatLine(key, q) ==
    [key |-> key, kind |-> "float", num |-> q, path |-> None, rgba |-> NoColor]
ExtLine(key, godot_path) ==
    [key |-> key, kind |-> "ExtResource", num |-> 0, path |-> godot_path, rgba |-> NoColor]
ColorLine(key, rgba) ==
    [key |-> key, kind |-> "Color", num |-> 0, path |-> None, rgba |-> rgba]

\* convert_color on the dict analyze_unity_material builds.
convert_color(unity_color) ==
    <<unity_color.r, unity_color.g, unity_color.b, unity_color.a>>

Half == 2
One == 4

\* The flags looked for in the shader keyword string.
AlphaTest == <<"_ALPHATEST", "_ON">>
AlphaBlend == <<"_ALPHABLEND", "_ON">>
AlphaPremultiply == <<"_ALPHAPREMULTIPLY", "_ON">>

\* unity_material["floats"].get("_Cutoff", 0.5)
Cutoff(floats) == IF "_Cutoff" \in DOMAIN floats THEN floats["_Cutoff"] ELSE Half

\* Lines 145-152 with the two tests in the other order.
TransparencyLines_BlendFirst(unity_material) ==
    LET keywords == unity_material.shader_keywords
    IN  IF Contains(AlphaBlend, keywords) \/ Contains(AlphaPremultiply, keywords)
        THEN << IntLine("transparency", 1), IntLine("blend_mode", 1) >>
        ELSE IF Contains(AlphaTest, keywords)
        THEN << IntLine("transparency", 1),
                FloatLine("alpha_scissor_threshold", Cutoff(unity_material.floats)),
                FloatLine("alpha_hash_scale", One) >>
        ELSE << >>

\* Lines 145-152.
TransparencyLines(unity_material) ==
    LET keywords == unity_material.shader_keywords
    IN  IF Contains(AlphaTest, keywords)
        THEN << IntLine("transparency", 1),
                FloatLine("alpha_scissor_threshold", Cutoff(unity_material.floats)),
                FloatLine("alpha_hash_scale", One) >>
        ELSE IF Contains(AlphaBlend, keywords) \/ Contains(AlphaPremultiply, keywords)
        THEN << IntLine("transparency", 1), IntLine("blend_mode", 1) >>
        ELSE << >>

Msg(kind, name) == [kind |-> kind, name |-> name]

\* The loop body with the colour read by
\* convert_color(unity_material['colors'].get(unity_prop)) for every colour
\* property of the table: an unset colour comes out as Color(1, 1, 1, 1).
PropertyStep_DefaultColor(st, unity_prop, godot_prop, unity_material, utree, gtree, uroot, groot) ==
    IF unity_prop \in DOMAIN unity_material.textures
    THEN LET guid == unity_material.textures[unity_prop].guid
         IN  UNION {
               LET st1 == [st EXCEPT
                            !.ucache = m.cache,
                            !.walks = IF m.walked THEN @ + 1 ELSE @,
                            !.log = IF m.walked
                                    THEN Append(@, Msg("Searching for GUID", guid))
                                    ELSE @]
               IN  IF Falsy(m.ret)
                   THEN {st1}
                   ELSE { IF Falsy(g.ret)
                          THEN [st1 EXCEPT
                                  !.gcache = g.cache,
                                  !.log = Append(@, Msg("Warning", m.ret.name))]
                          ELSE [st1 EXCEPT
                                  !.gcache = g.cache,
                                  !.log = Append(@, Msg("Found texture", m.ret.name)),
                                  !.lines = Append(@, ExtLine(godot_prop, g.ret))]
                          : g \in FindGodotOutcomes(st1.gcache, gtree, groot, m.ret) }
               : m \in FindMetaOutcomes(st.ucache, utree, uroot, guid) }
    ELSE IF unity_prop \in DOMAIN unity_material.colors
    THEN {[st EXCEPT !.lines =
              Append(@, ColorLine(godot_prop, convert_color(unity_material.colors[unity_prop])))]}
    ELSE IF unity_prop \in DOMAIN unity_material.floats
    THEN LET value == unity_material.floats[unity_prop]
         IN  {[st EXCEPT !.lines =
                 Append(@, FloatLine(godot_prop,
                                     IF unity_prop = "_Glossiness" THEN One - value ELSE value))]}
    ELSE IF godot_prop \in {"albedo_color", "emission"}
    THEN {[st EXCEPT !.lines = Append(@, ColorLine(godot_prop, <<4, 4, 4, 4>>))]}
    ELSE {st}

\* One pass of the loop body (lines 155-172) from the running state st =
\* [lines, log, ucache, gcache, walks]: the states it can end in.
PropertyStep(st, unity_prop, godot_prop, unity_material, utree, gtree, uroot, groot) ==
    IF unity_prop \in DOMAIN unity_material.textures
    THEN LET guid == unity_material.textures[unity_prop].guid
         IN  UNION {
               LET st1 == [st EXCEPT
                            !.ucache = m.cache,
                            !.walks = IF m.walked THEN @ + 1 ELSE @,
                            !.log = IF m.walked
                                    THEN Append(@, Msg("Searching for GUID", guid))
                                    ELSE @]
               IN  IF Falsy(m.ret)
                   THEN {st1}
                   ELSE { IF Falsy(g.ret)
                          THEN [st1 EXCEPT
                                  !.gcache = g.cache,
                                  !.log = Append(@, Msg("Warning", m.ret.name))]
                          ELSE [st1 EXCEPT
                                  !.gcache = g.cache,
                                  !.log = Append(@, Msg("Found texture", m.ret.name)),
                                  !.lines = Append(@, ExtLine(godot_prop, g.ret))]
                          : g \in FindGodotOutcomes(st1.gcache, gtree, groot, m.ret) }
               : m \in FindMetaOutcomes(st.ucache, utree, uroot, guid) }
    ELSE IF unity_prop \in DOMAIN unity_material.colors
    THEN {[st EXCEPT !.lines =
              Append(@, ColorLine(godot_prop, convert_color(unity_material.colors[unity_prop])))]}
    ELSE IF unity_prop \in DOMAIN unity_material.floats
    THEN LET value == unity_material.floats[unity_prop]
         IN  {[st EXCEPT !.lines =
                 Append(@, FloatLine(godot_prop,
                                     IF unity_prop = "_Glossiness" THEN One - value ELSE value))]}
    ELSE {st}

\* The loop of line 154 from table entry k on.
RECURSIVE PropertyLoop(_, _, _, _, _, _, _)
PropertyLoop(k, sts, unity_material, utree, gtree, uroot, groot) ==
    IF k > Len(property_mappings)
    THEN sts
    ELSE PropertyLoop(k + 1,
            UNION {PropertyStep(st, property_mappings[k][1], property_mappings[k][2],
                                unity_material, utree, gtree, uroot, groot) : st \in sts},
            unity_material, utree, gtree, uroot, groot)

Header == << [key |-> "[gd_resource type=\"StandardMaterial3D\" format=3]", kind |-> "header",
              num |-> 0, path |-> None, rgba |-> NoColor],
             [key |-> "[resource]", kind |-> "header",
              num |-> 0, path |-> None, rgba |-> NoColor] >>

\* generate_godot_material up to the write of line 176: the states the
\* text, the log and the caches can end in.
GenerateOutcomes(unity_material, ucache, gcache, nwalks, printed, utree, gtree, uroot, groot) ==
    PropertyLoop(1,
        {[lines |-> Header \o TransparencyLines(unity_material), log |-> printed,
          ucache |-> ucache, gcache |-> gcache, walks |-> nwalks]},
        unity_material, utree, gtree, uroot, groot)

UnityRoot == <<"u">>

\* Material records.  analyze_unity_material keeps a texture block under the
\* name that follows the first underscore, a float or a colour under the
\* whole name.
TexKeys == {"_MainTex", "_BumpMap", "MainTex"}
ColorKeys == {"_Color", "_MainTex"}
FloatKeys == {"_Cutoff", "_Glossiness", "_Color"}
White == [r |-> 4, g |-> 4, b |-> 4, a |-> 4]
TexRefs == [fileID : {"2800000"}, guid : DeclaredGuids]
KeywordStrings ==
    { <<>>,
      AlphaTest,
      AlphaBlend,
      AlphaPremultiply,
      AlphaBlend \o <<" ">> \o AlphaTest,
      <<"_ALPHATEST", " ", "_ON">>,
      <<"MY", "_ALPHABLEND", "_ON", "_X">> }
Materials ==
    [textures : UNION {[D -> TexRefs] : D \in SUBSET TexKeys},
     colors : UNION {[D -> {White}] : D \in SUBSET ColorKeys},
     floats : UNION {[D -> {1}] : D \in SUBSET FloatKeys},
     shader_keywords : KeywordStrings]

NoMaterial == [textures |-> <<>>, colors |-> <<>>, floats |-> <<>>, shader_keywords |-> <<>>]

Sidecar(dir, d, exists) ==
    [dir |-> dir, name |-> <<"W", ".", "psd">>, guid |-> Guid(d),
     exists |-> exists, decodable |-> TRUE]

\* Unity projects the translator is run against.
MatUnityTrees ==
    { {},
      {Sidecar("Textures", "a", TRUE)},
      {Sidecar(TopDir, "a", FALSE), Sidecar("Textures", "b", TRUE)} }

\* Godot projects the translator is run against.
MatGodotTrees ==
    { {},
      {[dir |-> "Textures", name |-> <<"W", ".", "png">>],
       [dir |-> "Textures", name |-> <<"w", ".", "psd">>]} }

IdleMat ==
    /\ material = NoMaterial
    /\ tres_content = <<>>
    /\ log = <<>>
    /\ generated = FALSE

InitMat ==
    /\ unity_tree \in [Roots -> MatUnityTrees]
    /\ unity_tree[<<"u", ":", "a">>] = {}
    /\ unity_texture_cache = <<>>
    /\ walks = 0
    /\ calls = 0
    /\ firstResult = <<>>
    /\ lastCall = NoCall
    /\ godot_tree \in MatGodotTrees
    /\ godot_resource_cache = <<>>
    /\ locates = 0
    /\ lastLocate = NoLocate
    /\ material \in Materials
    /\ tres_content = <<>>
    /\ log = <<>>
    /\ generated = FALSE

\* converter.generate_godot_material(material, unity_root, godot_root, output_path)
GenerateGodotMaterial ==
    /\ ~generated
    /\ \E o \in GenerateOutcomes(material, unity_texture_cache, godot_resource_cache,
                                 walks, log, unity_tree[UnityRoot], godot_tree,
                                 UnityRoot, GodotRoot) :
          /\ tres_content' = o.lines
          /\ log' = o.log
          /\ unity_texture_cache' = o.ucache
          /\ godot_resource_cache' = o.gcache
          /\ walks' = o.walks
    /\ generated' = TRUE
    /\ UNCHANGED <<material, unity_tree, godot_tree, calls, firstResult, lastCall,
                   locates, lastLocate, notMat>>

NextMat == GenerateGodotMaterial

(***************************************************************************)
(* Scene composer: find_godot_fbx and generate_godot_scene                 *)
(***************************************************************************)

\* Paths below an assets directory are sequences of segments, each segment
\* a name (a sequence of tokens).  The empty sequence stands for None.
NoneSeq == <<>>

Basename(path) == path[Len(path)]
Dirname(path) == SubSeq(path, 1, Len(path) - 1)
IsPrefix(p, q) == Len(p) <= Len(q) /\ SubSeq(q, 1, Len(p)) = p

\* godot_assets_dir as seen from godot_project_root (os.path.relpath).
AssetsFromRoot(isOutside) ==
    IF isOutside THEN << <<"..">>, <<"out">> >> ELSE << <<"Assets">> >>

\* "res://" + os.path.relpath(path, godot_root).replace('\\', '/')
ResOf(rel, isOutside) == << <<"res://">> >> \o AssetsFromRoot(isOutside) \o rel

\* Top-down walk of a deep tree: of the files that satisfy a test, one can
\* be met first if no other lies in a directory above its own.
FirstInDeepWalk(matches) ==
    {m \in matches :
        ~\E n \in matches : Dirname(n) # Dirname(m) /\ IsPrefix(Dirname(n), Dirname(m))}

\* find_godot_fbx without strategy 1: the search by name alone.
FindGodotFbx_SearchOnly(fbx_rel, files, dirs, isOutside) ==
    LET fbx_name == Basename(fbx_rel)
        found == {f \in files : Basename(f) = fbx_name}
    IN  IF found # {}
        THEN {ResOf(f, isOutside) : f \in FirstInDeepWalk(found)}
        ELSE {NoneSeq}

\* find_godot_fbx: the values it can return for the mesh at fbx_rel below
\* unity_assets_dir, given the files and directories below godot_assets_dir.
FindGodotFbx(fbx_rel, files, dirs, isOutside) ==
    LET fbx_name == Basename(fbx_rel)
        found == {f \in files : Basename(f) = fbx_name}
    IN  IF fbx_rel \in files \cup dirs
        THEN {ResOf(fbx_rel, isOutside)}
        ELSE IF found # {}
        THEN {ResOf(f, isOutside) : f \in FirstInDeepWalk(found)}
        ELSE {NoneSeq}

\* Lines 217-222: the path from the first 'Meshes' segment on, or all of it.
RelevantPath(full_rel_path) ==
    IF \E n \in 1..Len(full_rel_path) : full_rel_path[n] = <<"Meshes">>
    THEN LET meshes_index == CHOOSE n \in 1..Len(full_rel_path) :
                /\ full_rel_path[n] = <<"Meshes">>
                /\ \A k \in 1..(n - 1) : full_rel_path[k] # <<"Meshes">>
         IN  SubSeq(full_rel_path, meshes_index, Len(full_rel_path))
    ELSE full_rel_path

\* os.makedirs(path, exist_ok=True): the directory and those above it.
Makedirs(dirs, path) == dirs \cup {SubSeq(path, 1, n) : n \in 1..Len(path)}

\* The dict assignment d[k] = v on a dict kept as a sequence of <<k, v>>:
\* a new key goes last, a known key keeps its place.
DictSet_MoveToEnd(d, k, v) ==
    LET Other(e) == e[1] # k IN Append(SelectSeq(d, Other), <<k, v>>)

DictSet(d, k, v) ==
    IF \E n \in 1..Len(d) : d[n][1] = k
    THEN [n \in 1..Len(d) |-> IF d[n][1] = k THEN <<k, v>> ELSE d[n]]
    ELSE Append(d, <<k, v>>)

\* Lines 240-242.
Overrides(material_mappings) ==
    [n \in 1..Len(material_mappings) |->
        [node |-> material_mappings[n][1], material |-> material_mappings[n][2]]]

\* generate_godot_scene: what it returns, the directories and the scene
\* files afterwards.
GenerateSceneOutcomes(fbx_rel, material_mappings, files, dirs, written, isOutside) ==
    LET fbx_name == SplitextBase(Basename(fbx_rel))
        scenes_dir == << <<"Scenes">> >>
        scene_subdir == scenes_dir \o Dirname(RelevantPath(fbx_rel))
        output_path == Append(scene_subdir, fbx_name \o <<".", "tscn">>)
        dirs2 == Makedirs(Makedirs(dirs, scenes_dir), scene_subdir)
    IN  { IF godot_fbx_path = NoneSeq
          THEN [ret |-> NoneSeq, dirs |-> dirs2, written |-> written]
          ELSE [ret |-> output_path, dirs |-> dirs2,
                written |-> [q \in DOMAIN written \cup {output_path} |->
                               IF q = output_path
                               THEN [fbx |-> godot_fbx_path, root |-> fbx_name,
                                     overrides |-> Overrides(material_mappings)]
                               ELSE written[q]]]
          : godot_fbx_path \in FindGodotFbx(fbx_rel, files \cup DOMAIN written, dirs2, isOutside) }

\* Meshes of the Unity project, below unity_assets_dir.
CrateFbx == << <<"Meshes">>, <<"Props">>, <<"C", "r", ".", "fbx">> >>
BoxFbx == << <<"Models">>, <<"B", ".", "fbx">> >>
UnityMeshes == {CrateFbx, BoxFbx}

\* Files a Godot assets directory can hold.
GodotMeshes ==
    { CrateFbx,
      << <<"C", "r", ".", "fbx">> >>,
      << <<"Models">>, <<"Old">>, <<"C", "r", ".", "fbx">> >>,
      << <<"Models">>, <<"c", "r", ".", "fbx">> >>,
      << <<"Imported">>, <<"B", ".", "fbx">> >> }

\* Resource ids of translated materials.
TresA == << <<"res://">>, <<"Assets">>, <<"a">>, <<"m", ".", "tres">> >>
TresB == << <<"res://">>, <<"Assets">>, <<"b">>, <<"m", ".", "tres">> >>

\* material_mappings a caller may pass.
SceneMappings ==
    { <<>>,
      << <<(<<"C", "r">>), TresA>> >>,
      << <<(<<"C", "r">>), TresA>>, <<(<<"B">>), TresB>> >> }

MaxScenes == 2

NoScene == [fbx |-> NoneSeq, ret |-> NoneSeq, before |-> <<>>, files |-> {}]

IdleScene ==
    /\ mesh_tree = {}
    /\ scene_dirs = {}
    /\ scene_files = <<>>
    /\ scenes = 0
    /\ lastScene = NoScene

InitScene ==
    /\ mesh_tree \in SUBSET GodotMeshes
    /\ scene_dirs = {}
    /\ scene_files = <<>>
    /\ scenes = 0
    /\ lastScene = NoScene

\* converter.generate_godot_scene(fbx_path, material_mappings, ...)
GenerateGodotScene(fbx_rel, material_mappings) ==
    /\ scenes < MaxScenes
    /\ \E o \in GenerateSceneOutcomes(fbx_rel, material_mappings, mesh_tree,
                                      scene_dirs, scene_files, FALSE) :
          /\ scene_dirs' = o.dirs
          /\ scene_files' = o.written
          /\ lastScene' = [fbx |-> fbx_rel, ret |-> o.ret, before |-> scene_files,
                           files |-> mesh_tree \cup DOMAIN scene_files]
    /\ scenes' = scenes + 1
    /\ UNCHANGED <<mesh_tree, notScene>>

NextScene == \E f \in UnityMeshes, m \in SceneMappings : GenerateGodotScene(f, m)

(***************************************************************************)
(* Batch: convert_directory                                                *)
(***************************************************************************)

\* Names materials declare (m_Name) and the record every material file of
\* the batch analyzes to, apart from its name.
MatNames == {<<"c">>, <<"R">>}
BatchRecord ==
    [textures |-> ("_MainTex" :> [fileID |-> "2800000", guid |-> Guid("a")]),
     colors |-> ("_Color" :> White),
     floats |-> <<>>,
     shader_keywords |-> <<>>]

\* The projects a batch runs against.
BatchUnityTree == {Sidecar("Textures", "a", TRUE)}
BatchGodotTree == {[dir |-> "Textures", name |-> <<"W", ".", "png">>]}
BatchMeshTrees == { {}, {CrateFbx}, {<< <<"Imported">>, <<"B", ".", "fbx">> >>} }

MaxMats == 3

\* The n-th material file lies in a directory of its own.
MatDir(n) == [k \in 1..n |-> "d"]

\* output_path / relative_path.with_suffix('.tres'), and
\* f"res://{output_file.relative_to(Path(godot_project_root))}"
GodotMatPath(n) == << <<"res://">>, <<"Assets">>, MatDir(n), <<"m", ".", "tres">> >>

\* Lists without repetition of the meshes glob can enumerate.
MeshLists ==
    {<<>>} \cup {<<f>> : f \in UnityMeshes}
           \cup {<<f, g>> : <<f, g>> \in {q \in UnityMeshes \X UnityMeshes : q[1] # q[2]}}

InitBatch ==
    /\ pc = "materials"
    /\ outside \in BOOLEAN
    /\ mat_files \in UNION {[1..n -> MatNames] : n \in 0..MaxMats}
    /\ fbx_files \in MeshLists
    /\ mi = 1
    /\ fi = 1
    /\ material_paths = <<>>
    /\ tres_files = {}
    /\ raised = {}
    /\ translated = <<>>
    /\ mesh_tree \in BatchMeshTrees
    /\ scene_dirs = {}
    /\ scene_files = <<>>
    /\ scenes = 0
    /\ lastScene = NoScene
    /\ unity_tree = [r \in Roots |-> IF r = UnityRoot THEN BatchUnityTree ELSE {}]
    /\ unity_texture_cache = <<>>
    /\ walks = 0
    /\ calls = 0
    /\ firstResult = <<>>
    /\ lastCall = NoCall
    /\ godot_tree = BatchGodotTree
    /\ godot_resource_cache = <<>>
    /\ locates = 0
    /\ lastLocate = NoLocate
    /\ material = NoMaterial
    /\ tres_content = <<>>
    /\ log = <<>>
    /\ generated = FALSE

batchFixed == <<outside, mat_files, fbx_files, mesh_tree, unity_tree, godot_tree,
                calls, firstResult, lastCall, locates, lastLocate, scenes>>

\* The same pass without the handler of line 301: the exception leaves
\* convert_directory.
ConvertMaterialRaises_Propagates ==
    /\ pc = "materials"
    /\ mi <= Len(mat_files)
    /\ raised' = raised \cup {<<"mat", mi>>}
    /\ pc' = "aborted"
    /\ UNCHANGED <<mi, log, fi, material_paths, tres_files, translated, material, tres_content,
                   generated, unity_texture_cache, godot_resource_cache, walks,
                   scene_dirs, scene_files, lastScene, batchFixed>>

\* One pass of the loop of lines 284-302 in which analyze_unity_material or
\* generate_godot_material raises before line 176 writes (the file cannot be
\* read, or the output cannot be created): the handler of line 301 logs it.
ConvertMaterialRaises ==
    /\ pc = "materials"
    /\ mi <= Len(mat_files)
    /\ raised' = raised \cup {<<"mat", mi>>}
    /\ log' = Append(log, Msg("Error converting", MatDir(mi)))
    /\ mi' = mi + 1
    /\ UNCHANGED <<pc, fi, material_paths, tres_files, translated, material, tres_content,
                   generated, unity_texture_cache, godot_resource_cache, walks,
                   scene_dirs, scene_files, lastScene, batchFixed>>

\* One pass of the loop of lines 284-302 in which the file is analyzed and
\* the .tres written.  Line 298 then raises ValueError when the output
\* file does not lie under godot_project_root, and the handler logs it;
\* otherwise line 299 records the material.
ConvertMaterial ==
    /\ pc = "materials"
    /\ mi <= Len(mat_files)
    /\ \E o \in GenerateOutcomes(BatchRecord, unity_texture_cache, godot_resource_cache,
                                 walks, log, unity_tree[UnityRoot], godot_tree,
                                 UnityRoot, GodotRoot) :
          /\ tres_content' = o.lines
          /\ unity_texture_cache' = o.ucache
          /\ godot_resource_cache' = o.gcache
          /\ walks' = o.walks
          /\ log' = IF outside
                    THEN Append(o.log, Msg("Error converting", MatDir(mi)))
                    ELSE Append(o.log, Msg("Converted material", MatDir(mi)))
    /\ material' = BatchRecord
    /\ generated' = TRUE
    /\ tres_files' = tres_files \cup {mi}
    /\ IF outside
       THEN /\ raised' = raised \cup {<<"mat", mi>>}
            /\ UNCHANGED <<material_paths, translated>>
       ELSE /\ material_paths' = DictSet(material_paths, mat_files[mi], GodotMatPath(mi))
            /\ translated' = Append(translated, <<mat_files[mi], GodotMatPath(mi)>>)
            /\ UNCHANGED raised
    /\ mi' = mi + 1
    /\ UNCHANGED <<pc, fi, scene_dirs, scene_files, lastScene, batchFixed>>

\* Line 304: the first loop is over.
StartScenes ==
    /\ pc = "materials"
    /\ mi > Len(mat_files)
    /\ pc' = "scenes"
    /\ log' = Append(log, Msg("Creating scene files", <<>>))
    /\ UNCHANGED <<mi, fi, material_paths, tres_files, raised, translated, material,
                   tres_content, generated, unity_texture_cache, godot_resource_cache,
                   walks, scene_dirs, scene_files, lastScene, batchFixed>>

\* Lines 311-314: the materials whose name the mesh's stem contains.
RECURSIVE MappingsFor(_, _, _, _)
MappingsFor(n, paths, stem, acc) ==
    IF n > Len(paths)
    THEN acc
    ELSE MappingsFor(n + 1, paths, stem,
            IF Contains(LowerStr(paths[n][1]), LowerStr(stem))
            THEN DictSet(acc, stem, paths[n][2])
            ELSE acc)

\* One pass of the loop of lines 307-329 in which generate_godot_scene
\* raises (a directory or the scene file cannot be created).
ComposeSceneRaises ==
    /\ pc = "scenes"
    /\ fi <= Len(fbx_files)
    /\ raised' = raised \cup {<<"fbx", fi>>}
    /\ log' = Append(log, Msg("Error processing", Basename(fbx_files[fi])))
    /\ fi' = fi + 1
    /\ UNCHANGED <<pc, mi, material_paths, tres_files, translated, material, tres_content,
                   generated, unity_texture_cache, godot_resource_cache, walks,
                   scene_dirs, scene_files, lastScene, batchFixed>>

\* One pass of the loop of lines 307-329.
ComposeScene ==
    /\ pc = "scenes"
    /\ fi <= Len(fbx_files)
    /\ LET stem == SplitextBase(Basename(fbx_files[fi]))
           material_mappings == MappingsFor(1, material_paths, stem, <<>>)
       IN  \E o \in GenerateSceneOutcomes(fbx_files[fi], material_mappings, mesh_tree,
                                          scene_dirs, scene_files, outside) :
              /\ scene_dirs' = o.dirs
              /\ scene_files' = o.written
              /\ lastScene' = [fbx |-> fbx_files[fi], ret |-> o.ret, before |-> scene_files,
                               files |-> mesh_tree \cup DOMAIN scene_files]
              /\ log' = Append(log, Msg(IF o.ret = NoneSeq THEN "Warning: no FBX"
                                        ELSE "Created scene file", Basename(fbx_files[fi])))
    /\ fi' = fi + 1
    /\ UNCHANGED <<pc, mi, material_paths, tres_files, raised, translated, material,
                   tres_content, generated, unity_texture_cache, godot_resource_cache,
                   walks, batchFixed>>

\* Line 331.
Complete ==
    /\ pc = "scenes"
    /\ fi > Len(fbx_files)
    /\ pc' = "done"
    /\ log' = Append(log, Msg("Conversion complete!", <<>>))
    /\ UNCHANGED <<mi, fi, material_paths, tres_files, raised, translated, material,
                   tres_content, generated, unity_texture_cache, godot_resource_cache,
                   walks, scene_dirs, scene_files, lastScene, batchFixed>>

NextBatch ==
    \/ ConvertMaterialRaises
    \/ ConvertMaterial
    \/ StartScenes
    \/ ComposeSceneRaises
    \/ ComposeScene
    \/ Complete

(***************************************************************************)
(* Specifications                                                          *)
(***************************************************************************)

IdleGuid ==
    /\ unity_tree = [r \in Roots |-> {}]
    /\ unity_texture_cache = <<>>
    /\ walks = 0
    /\ calls = 0
    /\ firstResult = <<>>
    /\ lastCall = NoCall

IdleLocate ==
    /\ godot_tree = {}
    /\ godot_resource_cache = <<>>
    /\ locates = 0
    /\ lastLocate = NoLocate

IdleBatch ==
    /\ pc = "idle"
    /\ outside = FALSE
    /\ mat_files = <<>>
    /\ fbx_files = <<>>
    /\ mi = 1
    /\ fi = 1
    /\ material_paths = <<>>
    /\ tres_files = {}
    /\ raised = {}
    /\ translated = <<>>

\* Lookups by GUID against a project that changes on disk.
InitG == InitGuid /\ IdleLocate /\ IdleMat /\ IdleScene /\ IdleBatch
SpecGuid == InitG /\ [][NextGuid]_vars

\* Lookups of Godot resources in one snapshot of the Godot project.
InitL == InitLocate /\ IdleGuid /\ IdleMat /\ IdleScene /\ IdleBatch
SpecLocate == InitL /\ [][NextLocate]_vars

\* One translation of a material record against fixed projects.
InitM == InitMat /\ IdleScene /\ IdleBatch
SpecMat == InitM /\ [][NextMat]_vars

\* Scene compositions against one Godot assets directory.
InitS == InitScene /\ IdleGuid /\ IdleLocate /\ IdleMat /\ IdleBatch
SpecScene == InitS /\ [][NextScene]_vars

\* One run of convert_directory.
SpecBatch == InitBatch /\ [][NextBatch]_vars

\* One run of convert_directory that is not suspended for ever: the program
\* is sequential and each of its steps terminates.
SpecBatchFair == InitBatch /\ [][NextBatch]_vars /\ WF_vars(NextBatch)

(***************************************************************************)
(* Properties                                                              *)
(***************************************************************************)

\* C1: a lookup of a (project_root, guid) pair that was looked up before
\* returns what the first lookup of the pair returned and walks no
\* directory, whether the first lookup found an asset or nothing; every
\* walk so far left one entry in the cache.
C1_MemoizedLookup ==
    /\ lastCall.repeat =>
          /\ lastCall.ret = firstResult[<<lastCall.root, lastCall.guid>>]
          /\ ~lastCall.walked
    /\ walks = Cardinality(DOMAIN unity_texture_cache)

\* A repeated lookup answered "absent" from the cache although a walk of
\* the tree as it is at that call would find the asset.
C1_Witness ==
    /\ lastCall.repeat
    /\ lastCall.ret = None
    /\ None \notin lastCall.fresh

\* C8: a lookup with a malformed GUID returns absent whatever the tree holds.
C8_MalformedNeverMatches ==
    (calls > 0 /\ ~WellFormed(lastCall.guid)) => lastCall.ret = None

\* C6: the result of find_godot_resource is fixed by the candidate
\* extensions in order, names compared without case: a .psd source (in any
\* letter case) gets a file named base+'.png' or nothing; any other source
\* gets a file named base+original extension if the tree has one, else a
\* file named base+'.png' if the tree has one, else nothing.
C6_ExtensionOrder ==
    (locates > 0 /\ ~Falsy(lastLocate.path)) =>
        LET name == lastLocate.path.name
            same(ext) == {ResPath(f) : f \in
                            {g \in godot_tree :
                                LowerStr(g.name) = LowerStr(SplitextBase(name) \o ext)}}
            isPsd == LowerStr(SplitextExt(name)) = Psd
        IN  IF ~isPsd /\ same(SplitextExt(name)) # {}
            THEN lastLocate.ret \in same(SplitextExt(name))
            ELSE IF same(Png) # {}
            THEN lastLocate.ret \in same(Png)
            ELSE lastLocate.ret = None

\* A .PSD source resolved to the .png file of a tree that also holds a
\* same-named .psd file.
C6_Witness ==
    /\ locates > 0
    /\ lastLocate.path.name = <<"w", ".", "PSD">>
    /\ \E f \in godot_tree : f.name = <<"w", ".", "psd">>
    /\ lastLocate.ret # None

\* The lines of the [resource] section with the given keys.
LinesWith(lines, keys) ==
    LET Test(l) == l.key \in keys IN SelectSeq(lines, Test)

TransparencyKeys == {"transparency", "alpha_scissor_threshold", "blend_mode"}

\* The Godot keys of the table entries the record sets in some way.
SetGodotKeys(m) ==
    {property_mappings[k][2] : k \in
        {n \in 1..Len(property_mappings) :
            property_mappings[n][1] \in
                DOMAIN m.textures \cup DOMAIN m.colors \cup DOMAIN m.floats}}

BodyKeys(lines) == {lines[n].key : n \in (Len(Header) + 1)..Len(lines)}

\* C4 as stated: a table entry the record sets in no way gets no line, and
\* the only other fields are transparency, alpha_scissor_threshold and
\* blend_mode.
C4_OnlyDocumentedDefaults ==
    generated =>
        BodyKeys(tres_content) \subseteq SetGodotKeys(material) \cup TransparencyKeys

\* C4, amended: a table entry the record sets in no way gets no line, and
\* the only other fields are transparency, alpha_scissor_threshold,
\* alpha_hash_scale and blend_mode.
C4_NoInjectedDefaults ==
    generated =>
        BodyKeys(tres_content) \subseteq
            SetGodotKeys(material) \cup TransparencyKeys \cup {"alpha_hash_scale"}

\* An alpha-tested material that sets its colour and nothing else of the
\* table: the text has the colour, the transparency fields and no more.
C4_Witness ==
    /\ generated
    /\ Contains(AlphaTest, material.shader_keywords)
    /\ SetGodotKeys(material) = {"albedo_color"}
    /\ BodyKeys(tres_content) =
          {"transparency", "alpha_scissor_threshold", "alpha_hash_scale", "albedo_color"}

\* C5: with the alpha-test flag in the keyword string the text sets
\* transparency and an alpha-scissor threshold equal to _Cutoff, or 0.5
\* without _Cutoff, and no blend mode; else with either alpha-blend flag it
\* sets transparency and a blend mode; else it has no transparency field.
\* Transparency fields come before every field of the property table.
C5_Transparency ==
    generated =>
        LET kw == material.shader_keywords
            keys == BodyKeys(tres_content)
            threshold == LinesWith(tres_content, {"alpha_scissor_threshold"})
            allTransparency == TransparencyKeys \cup {"alpha_hash_scale"}
        IN  /\ IF Contains(AlphaTest, kw)
               THEN /\ LinesWith(tres_content, {"transparency"}) = <<IntLine("transparency", 1)>>
                    /\ Len(threshold) = 1
                    /\ threshold[1].num =
                          IF "_Cutoff" \in DOMAIN material.floats
                          THEN material.floats["_Cutoff"] ELSE 2
                    /\ "blend_mode" \notin keys
               ELSE IF Contains(AlphaBlend, kw) \/ Contains(AlphaPremultiply, kw)
               THEN /\ LinesWith(tres_content, {"transparency"}) = <<IntLine("transparency", 1)>>
                    /\ LinesWith(tres_content, {"blend_mode"}) = <<IntLine("blend_mode", 1)>>
               ELSE keys \cap allTransparency = {}
            /\ \A i, j \in 1..Len(tres_content) :
                  (tres_content[i].key \in allTransparency /\ tres_content[j].key \in GodotKeys)
                      => i < j

\* Both an alpha-blend and the alpha-test flag, no _Cutoff, and a field of
\* the property table after the transparency fields.
C5_Witness ==
    /\ generated
    /\ material.shader_keywords = AlphaBlend \o <<" ">> \o AlphaTest
    /\ "_Cutoff" \notin DOMAIN material.floats
    /\ "roughness" \in BodyKeys(tres_content)
    /\ "alpha_scissor_threshold" \in BodyKeys(tres_content)

\* The record without one of its texture references.
WithoutTexture(m, unity_prop) ==
    [m EXCEPT !.textures = [p \in DOMAIN m.textures \ {unity_prop} |-> m.textures[p]]]

\* C2: a texture property of the table whose GUID resolves to no sidecar has
\* no line in the text, a warning is logged for it, and the lines of the
\* other properties are those of the same record without that texture.
C2_MissingSidecarWarned ==
    generated =>
        \A k \in 1..Len(property_mappings) :
            LET unity_prop == property_mappings[k][1]
                godot_prop == property_mappings[k][2]
                others == (GodotKeys \ {godot_prop}) \cup TransparencyKeys \cup {"alpha_hash_scale"}
            IN  (/\ unity_prop \in DOMAIN material.textures
                 /\ unity_texture_cache[CacheKey(UnityRoot, material.textures[unity_prop].guid)]
                       = None)
                => /\ godot_prop \notin BodyKeys(tres_content)
                   /\ \E n \in 1..Len(log) : log[n].kind = "Warning"
                   /\ LinesWith(tres_content, others) \in
                         {LinesWith(o.lines, others) :
                            o \in GenerateOutcomes(WithoutTexture(material, unity_prop),
                                    <<>>, <<>>, 0, <<>>, unity_tree[UnityRoot], godot_tree,
                                    UnityRoot, GodotRoot)}

\* C3: when the mesh is neither at the mapped relative path nor, under its
\* own name, anywhere below the Godot assets directory, generate_godot_scene
\* returns None and writes no scene file; a scene that is written refers to
\* the file at the mapped path if there is one, else to a file of that name.
C3_MeshNotFound ==
    scenes > 0 =>
        LET f == lastScene.fbx
            byName == {g \in lastScene.files : Basename(g) = Basename(f)}
        IN  /\ (f \notin lastScene.files /\ byName = {}) =>
                  (lastScene.ret = NoneSeq /\ scene_files = lastScene.before)
            /\ lastScene.ret # NoneSeq =>
                  /\ lastScene.ret \in DOMAIN scene_files
                  /\ IF f \in lastScene.files
                     THEN scene_files[lastScene.ret].fbx = ResOf(f, FALSE)
                     ELSE scene_files[lastScene.ret].fbx \in {ResOf(g, FALSE) : g \in byName}

\* A scene written for a mesh that is at the mapped path while a file of
\* the same name lies in the top directory, which a walk meets first.
C3_Witness ==
    /\ scenes > 0
    /\ lastScene.fbx = CrateFbx
    /\ {CrateFbx, << <<"C", "r", ".", "fbx">> >>} \subseteq lastScene.files
    /\ lastScene.ret # NoneSeq

Composed(n) ==
    \E k \in 1..Len(log) :
        /\ log[k].kind \in {"Created scene file", "Warning: no FBX"}
        /\ log[k].name = Basename(fbx_files[n])

ErrorsLogged ==
    Cardinality({k \in 1..Len(log) : log[k].kind \in {"Error converting", "Error processing"}})

\* Every file was attempted, every exception was logged, every material
\* that raised nothing has its .tres and every mesh that raised nothing
\* was composed.
AllHandled ==
    /\ mi = Len(mat_files) + 1
    /\ fi = Len(fbx_files) + 1
    /\ ErrorsLogged = Cardinality(raised)
    /\ \A n \in 1..Len(mat_files) : <<"mat", n>> \notin raised => n \in tres_files
    /\ \A n \in 1..Len(fbx_files) : <<"fbx", n>> \notin raised => Composed(n)

\* C7: whichever files raise, convert_directory reaches its end with every
\* exception caught and logged and every other file converted or composed.
C7_BatchCompletes == <>(pc = "done" /\ AllHandled)

\* A finished batch in which a material and a mesh raised, and another
\* material and another mesh went through.
C7_Witness ==
    /\ pc = "done"
    /\ ~outside
    /\ \E n, m \in 1..Len(mat_files) : <<"mat", n>> \in raised /\ m \in tres_files
    /\ \E n \in 1..Len(fbx_files) : <<"fbx", n>> \in raised
    /\ scene_files # <<>>

\* C9: no scene is composed before every material file was attempted; the
\* mapping has an entry for a name only if a file declaring the name was
\* analyzed and written without an exception; and when scene composition
\* starts every material whose .tres was written has an entry.
C9_MappingMirrorsWrites ==
    /\ (fi > 1 \/ lastScene # NoScene) => mi > Len(mat_files)
    /\ \A k \in 1..Len(material_paths) :
          \E n \in tres_files :
              /\ n < mi
              /\ mat_files[n] = material_paths[k][1]
              /\ <<"mat", n>> \notin raised
    /\ pc \in {"scenes", "done"} =>
          \A n \in tres_files : \E k \in 1..Len(material_paths) :
              material_paths[k][1] = mat_files[n]

\* The recorded materials whose name the stem contains, letter case aside.
Eligible(stem) ==
    {k \in 1..Len(translated) : Contains(LowerStr(translated[k][1]), LowerStr(stem))}

Max(S) == CHOOSE x \in S : \A y \in S : y <= x
Min(S) == CHOOSE x \in S : \A y \in S : x <= y

\* C10 as stated: the scene written for a mesh has one override node, named
\* after the mesh's stem, for the last eligible material in translation
\* order, and none when no material is eligible.
C10_LastTranslated ==
    (pc # "idle" /\ lastScene.ret # NoneSeq) =>
        LET stem == SplitextBase(Basename(lastScene.fbx))
            scene == scene_files[lastScene.ret]
        IN  scene.overrides =
                IF Eligible(stem) = {} THEN <<>>
                ELSE << [node |-> stem, material |-> translated[Max(Eligible(stem))][2]] >>

\* C10, amended: the override is for the eligible name whose first
\* translation came last, and refers to the last file translated under
\* that name.
C10_LastInserted ==
    (pc # "idle" /\ lastScene.ret # NoneSeq) =>
        LET stem == SplitextBase(Basename(lastScene.fbx))
            scene == scene_files[lastScene.ret]
            First(k) == Min({j \in 1..Len(translated) : translated[j][1] = translated[k][1]})
            chosen == CHOOSE k \in Eligible(stem) : \A j \in Eligible(stem) : First(j) <= First(k)
            last == Max({j \in 1..Len(translated) : translated[j][1] = translated[chosen][1]})
        IN  scene.overrides =
                IF Eligible(stem) = {} THEN <<>>
                ELSE << [node |-> stem, material |-> translated[last][2]] >>

\* Three eligible materials, the first and the third under one name: the
\* override is for the second.
C10_Witness ==
    /\ pc # "idle"
    /\ lastScene.ret # NoneSeq
    /\ lastScene.fbx = CrateFbx
    /\ Len(translated) = 3
    /\ translated[1][1] = translated[3][1]
    /\ translated[2][1] # translated[1][1]
    /\ scene_files[lastScene.ret].overrides =
          << [node |-> <<"C", "r">>, material |-> GodotMatPath(2)] >>

====
